---------------------------- MODULE Spec2Model ----------------------------
(***************************************************************************)
(* Model of scripts/split_records.py: the sequence number type BibItem,   *)
(* the record assembler iter_records and the author pipeline of main.     *)
(*                                                                         *)
(* Representation of Python values                                         *)
(*   a character   : a one-symbol string; the letters of the suffix class *)
(*                   [aаб] are written "lat_a", "cyr_a", "cyr_b", the     *)
(*                   line feed "nl"                                        *)
(*   a str         : a sequence of characters (tokens) or of words (texts)*)
(*   an int        : [kind |-> "int", num |-> v, suffix |-> 0, s |-> <<>>]*)
(*   a BibItem     : [kind |-> "bib", num, suffix, s |-> <<>>]             *)
(*   a str number  : [kind |-> "str", num |-> 0, suffix |-> 0, s |-> chars]*)
(*   a list        : an index into heap (lists are mutable objects)       *)
(***************************************************************************)
EXTENDS Integers, Sequences, FiniteSets, TLC

VARIABLES
    lines,      \* classified lines consumed so far by iter_records, each
                \* with the itemno it met (history)
    itemno,     \* iter_records: itemno
    stack,      \* iter_records: stack (a reference into heap)
    heap,       \* the list objects allocated so far, by reference
    out,        \* the records yielded so far, each with the list it refers to
    done,       \* the generator has run to its end
    author,     \* main: author
    rows,       \* main: the rows handed to csv_writer.writerow
    failed,     \* main: an exception ended the run
    opSelf, opOther,    \* the operands of a BibItem operation
    opName, opBool, opInt,  \* the operation applied last and its result
    tok, item, rendered \* a token, BibItem(string=tok), str() of it

vars == <<lines, itemno, stack, heap, out, done, author, rows, failed,
          opSelf, opOther, opName, opBool, opInt, tok, item, rendered>>

asmVars == <<lines, itemno, stack, heap, out, done, author, rows, failed>>
opVars  == <<opSelf, opOther, opName, opBool, opInt>>
strVars == <<tok, item, rendered>>

----------------------------------------------------------------------------
(* Bounds of the model *)

MaxLines == 3       \* input lines per run of the pipeline
MaxMain == 2        \* main numbers 1..MaxMain (and K + 1) on input lines
MaxAuthMain == 3    \* main numbers 1..MaxAuthMain (and K + 1) in SpecAuthors
MaxMultiMain == 2   \* main numbers 1..MaxMultiMain in SpecMulti
MaxTokLen == 3      \* characters per token handed to BibItem(string=...)
MaxOpNum == 3       \* main numbers of the operands of BibItem operations
MaxOpInt == 5       \* plain integer operands 0..MaxOpInt

(* iter_records(numlines, k=10): main calls it with the default *)
K == 10

----------------------------------------------------------------------------
(* Characters and decimal conversion *)

Digits == <<"0", "1", "2", "3", "4", "5", "6", "7", "8", "9">>

DigitSet == {Digits[j] : j \in 1..10}

DigitValue(c) == (CHOOSE j \in 1..10 : Digits[j] = c) - 1

SuffixChars == {"lat_a", "cyr_a", "cyr_b"}

\* int(s) for a sequence of decimal digits
RECURSIVE ParseInt(_)
ParseInt(s) ==
    IF s = <<>> THEN 0
    ELSE 10 * ParseInt(SubSeq(s, 1, Len(s) - 1)) + DigitValue(s[Len(s)])

\* str(n) for an int n >= 0
RECURSIVE IntToStr(_)
IntToStr(n) ==
    IF n < 10 THEN <<Digits[n + 1]>>
    ELSE IntToStr(n \div 10) \o <<Digits[(n % 10) + 1]>>

----------------------------------------------------------------------------
(* class BibItem *)

IntVal(v) == [kind |-> "int", num |-> v, suffix |-> 0, s |-> <<>>]

StrVal(chars) == [kind |-> "str", num |-> 0, suffix |-> 0, s |-> chars]

Bib(n, sfx) == [kind |-> "bib", num |-> n, suffix |-> sfx, s |-> <<>>]

\* the failed construction: ValueError("Incorrect value for BibItem")
ValueError == [kind |-> "ValueError", num |-> 0, suffix |-> 0, s |-> <<>>]

\* suffixdict = {None: 0, 'a': 1, 'а': 1, 'б': 2}
suffixdict(c) ==
    CASE c = "none"  -> 0
      [] c = "lat_a" -> 1
      [] c = "cyr_a" -> 1
      [] c = "cyr_b" -> 2

\* numtosuf = {0: '', 1: 'а', 2: 'б'}
numtosuf(sfx) ==
    CASE sfx = 0 -> <<>>
      [] sfx = 1 -> <<"cyr_a">>
      [] sfx = 2 -> <<"cyr_b">>

\* the length of the longest prefix of s made of digits: [0-9]* is greedy
RECURSIVE DigitPrefix(_)
DigitPrefix(s) ==
    IF s # <<>> /\ s[1] \in DigitSet THEN 1 + DigitPrefix(Tail(s)) ELSE 0

\* MatchBibItem with [0-9]+ for the main number: a leading 0 is accepted
MatchBibItemAnyDigits(string) ==
    LET d    == DigitPrefix(string)
        rest == SubSeq(string, d + 1, Len(string))
        atEnd(r) == r = <<>> \/ r = <<"nl">>
        none == [matched |-> FALSE, num |-> <<>>, suffix |-> "none"]
    IN  IF d = 0 THEN none
        ELSE IF rest # <<>> /\ rest[1] \in SuffixChars /\ atEnd(Tail(rest))
             THEN [matched |-> TRUE, num |-> SubSeq(string, 1, d),
                   suffix |-> rest[1]]
        ELSE IF atEnd(rest)
             THEN [matched |-> TRUE, num |-> SubSeq(string, 1, d),
                   suffix |-> "none"]
        ELSE none

\* re.match(r"(?<num>[1-9][0-9]*)(?<suffix>[aаб])?$", string): the groups, or
\* matched = FALSE. "$" matches at the end and before a line feed that ends
\* the string.
MatchBibItem(string) ==
    LET d    == DigitPrefix(string)
        rest == SubSeq(string, d + 1, Len(string))
        atEnd(r) == r = <<>> \/ r = <<"nl">>
        none == [matched |-> FALSE, num |-> <<>>, suffix |-> "none"]
    IN  IF d = 0 \/ string[1] = "0" THEN none
        ELSE IF rest # <<>> /\ rest[1] \in SuffixChars /\ atEnd(Tail(rest))
             THEN [matched |-> TRUE, num |-> SubSeq(string, 1, d),
                   suffix |-> rest[1]]
        ELSE IF atEnd(rest)
             THEN [matched |-> TRUE, num |-> SubSeq(string, 1, d),
                   suffix |-> "none"]
        ELSE none

\* BibItem.__init__(string=string) for a str
BibItemFromString(string) ==
    LET m == MatchBibItem(string)
    IN  IF m.matched THEN Bib(ParseInt(m.num), suffixdict(m.suffix))
        ELSE ValueError

\* BibItem.__str__
BibStr(self) == IntToStr(self.num) \o numtosuf(self.suffix)

\* str(x), '{}'.format(x) and csv's rendering of a cell
PyStr(x) ==
    CASE x.kind = "int" -> IntToStr(x.num)
      [] x.kind = "bib" -> BibStr(x)
      [] x.kind = "str" -> x.s

\* self.num + self.suffix: what the operations with an int work on
Collapsed(self) == self.num + self.suffix

\* self.value < other.value for the tuples (num, suffix)
TupleLt(x, y) == x.num < y.num \/ (x.num = y.num /\ x.suffix < y.suffix)

BibEq(self, other) ==
    IF other.kind = "int" THEN Collapsed(self) = other.num
    ELSE self.num = other.num /\ self.suffix = other.suffix

\* BibItem.__lt__ comparing main + suffix-rank for a BibItem too
BibLtCollapsed(self, other) ==
    IF other.kind = "int" THEN Collapsed(self) < other.num
    ELSE Collapsed(self) < Collapsed(other)

BibLt(self, other) ==
    IF other.kind = "int" THEN Collapsed(self) < other.num
    ELSE TupleLt(self, other)

BibGt(self, other) ==
    IF other.kind = "int" THEN Collapsed(self) > other.num
    ELSE TupleLt(other, self)

BibAdd(self, other) ==
    IF other.kind = "int" THEN self.num + self.suffix + other.num
    ELSE self.num + other.num + self.suffix + other.suffix

\* BibItem.__sub__ that forgets the suffixes
BibSubNoSuffix(self, other) == self.num - other.num

BibSub(self, other) ==
    IF other.kind = "int" THEN self.num + self.suffix - other.num
    ELSE self.num + self.suffix - other.num - other.suffix

----------------------------------------------------------------------------
(* Python's dispatch of an operator on an int or a BibItem: the left        *)
(* operand's method, and for an int left of a BibItem the reflected method  *)
(* of the right operand.                                                    *)

PyGt(x, y) ==
    IF x.kind = "bib" THEN BibGt(x, y)
    ELSE IF y.kind = "bib" THEN BibLt(y, x)
    ELSE x.num > y.num

PyLt(x, y) ==
    IF x.kind = "bib" THEN BibLt(x, y)
    ELSE IF y.kind = "bib" THEN BibGt(y, x)
    ELSE x.num < y.num

PyEq(x, y) ==
    IF x.kind = "bib" THEN BibEq(x, y)
    ELSE IF y.kind = "bib" THEN BibEq(y, x)
    ELSE x.num = y.num

\* x - y and x + y, an int in every case reached (x is a BibItem or both are ints)
PySub(x, y) == IF x.kind = "bib" THEN BibSub(x, y) ELSE x.num - y.num

PyAdd(x, y) == IF x.kind = "bib" THEN BibAdd(x, y) ELSE x.num + y.num

----------------------------------------------------------------------------
(* Texts. A text is a sequence of words, a word a sequence of symbols; the  *)
(* words of a line are separated by single blanks, so ' '.join of fragments *)
(* is the concatenation of their word sequences.                            *)

Word(sym) == <<sym>>

\* the word "<num>." that '{}. {}'.format(num, txt) puts before txt
NumDot(chars) == chars \o <<".">>

MISSING == <<Word("MISSING")>>

\* ' '.join(stack)
RECURSIVE JoinFragments(_)
JoinFragments(frags) ==
    IF frags = <<>> THEN <<>> ELSE frags[1] \o JoinFragments(Tail(frags))

\* the text alone, without the number put back in front of it
ReprintTextOnly(num, txt) == txt

\* '{}. {}'.format(num, txt)
Reprint(num, txt) == <<NumDot(PyStr(num))>> \o txt

----------------------------------------------------------------------------
(* extract_number *)

\* [1-9][0-9]*[aаб]? matched against the whole of chars
IsNumberToken(chars) ==
    LET d    == DigitPrefix(chars)
        rest == SubSeq(chars, d + 1, Len(chars))
    IN  /\ d >= 1
        /\ chars[1] # "0"
        /\ rest = <<>> \/ (Len(rest) = 1 /\ rest[1] \in SuffixChars)

\* re.match(r'\s*(?<num>[1-9][0-9]*[aаб]?)\.\s+(?<tail>.+)', line): the first
\* word is a number token and a period, and at least one word follows
extract_number(line) ==
    LET w == line[1]
    IN  IF /\ Len(line) >= 2
           /\ Len(w) >= 2
           /\ w[Len(w)] = "."
           /\ IsNumberToken(SubSeq(w, 1, Len(w) - 1))
        THEN [n |-> StrVal(SubSeq(w, 1, Len(w) - 1)), txt |-> Tail(line)]
        ELSE [n |-> IntVal(0), txt |-> line]

----------------------------------------------------------------------------
(* The author grammar, on words. The words a text is made of:               *)
(*   "Ivanov", "Petrov", "Molier", "Grimm"  \p{Lu}\p{Ll}+ (a surname)      *)
(*   "Grimm" ","                   a surname with a comma on it             *)
(*   "bratya" "."                  the word of "Grimm, bratya." and the     *)
(*                                 period the lookahead (?=\.) asks for     *)
(*   "I."                          \p{Lu}\p{Ll}{0,2}\. (an initial)         *)
(*   "i"                           the conjunction of an author list        *)
(*   "DASH"                        the long dash                            *)
(*   "@NOAUTHOR@"                  the tag                                  *)
(*   "trudy.", "MISSING", "<n>."   match neither a name nor a dash          *)

Surnames == {Word("Ivanov"), Word("Petrov"), Word("Molier"), Word("Grimm")}

\* a word with a comma on it, and the word without it
Comma(w) == w \o <<",">>

HasComma(w) == Len(w) >= 2 /\ w[Len(w)] = ","

NoComma(w) == IF HasComma(w) THEN SubSeq(w, 1, Len(w) - 1) ELSE w

\* "братья." : the name ends before the period, (?=\.) only looks at it
Brothers == <<"bratya", ".">>

Initial == Word("I.")

Conj == Word("i")

Dash == Word("DASH")

Tag == Word("@NOAUTHOR@")

\* SINGLE_AUTHORS = r'Джамбул|Майн-Рид|Мольер|Эсхил'
SINGLE_AUTHORS == {Word("Molier")}

NoneAuthor == <<>>

NOAUTHOR == <<"NOAUTHOR">>

ERRAUTHOR == <<"ERRAUTHOR">>

\* the characters of words separated by sep: sep.join(words)
RECURSIVE JoinWith(_, _)
JoinWith(sep, strs) ==
    IF strs = <<>> THEN <<>>
    ELSE IF Len(strs) = 1 THEN strs[1]
    ELSE strs[1] \o <<sep>> \o JoinWith(sep, Tail(strs))

\* AUTHOR_NAME matched at word p of ws: the numbers of words the match can
\* take, in the order the regex tries them (two initials before one); after
\* a surname with a comma only "братья" before a period
AUTHOR_NAME(ws, p) ==
    IF p > Len(ws) THEN <<>>
    ELSE IF ws[p] \in Surnames THEN
         (IF p + 2 <= Len(ws) /\ ws[p + 1] = Initial /\ ws[p + 2] = Initial
          THEN <<3>> ELSE <<>>)
         \o
         (IF p + 1 <= Len(ws) /\ ws[p + 1] = Initial THEN <<2>> ELSE <<>>)
    ELSE IF /\ HasComma(ws[p]) /\ NoComma(ws[p]) \in Surnames
            /\ p + 1 <= Len(ws) /\ ws[p + 1] = Brothers
         THEN <<2>>
    ELSE <<>>

\* the name ending at word e leaves the period of "братья." unread
PeriodLeft(ws, e) == ws[e] = Brothers

\* m.group('ini') of one word of the name
IniWord(w) == IF w = Brothers THEN <<"bratya">> ELSE w

\* ", ".join([m.group('last'), m.group('ini')]) for a name of c words at p
FormatName(ws, p, c) ==
    NoComma(ws[p]) \o <<", ">>
    \o JoinWith(" ", [j \in 1..(c - 1) |-> IniWord(ws[p + j])])

\* one_author.match(txt): the number of words of the name, 0 for no match;
\* [\W\s]+ needs a character after the name: a word, or the period left
one_author(ws) ==
    LET cands == AUTHOR_NAME(ws, 1)
        ok    == {j \in 1..Len(cands) :
                     cands[j] < Len(ws) \/ PeriodLeft(ws, cands[j])}
    IN  IF ok = {} THEN 0
        ELSE cands[CHOOSE j \in ok : \A j2 \in ok : j <= j2]

\* AUTHOR_NAME ((\s+и\s+|,\s+) AUTHOR_NAME)+ [\W\s]+ from word p on, names
\* names already matched: the last word of the list, 0 for no match. The
\* regex prefers the longer name and the longer list and backtracks. A
\* separator needs a blank or a comma right after the name, which a name
\* before a period does not have.
RECURSIVE MultiFrom(_, _, _)
MultiFrom(ws, p, names) ==
    LET cands == AUTHOR_NAME(ws, p)
        try(c) ==
            LET e    == p + c - 1
                more == IF /\ ~PeriodLeft(ws, e)
                           /\ e + 1 <= Len(ws) /\ ws[e + 1] = Conj
                        THEN MultiFrom(ws, e + 2, names + 1) ELSE 0
            IN  IF more # 0 THEN more
                ELSE IF names + 1 >= 2 /\ (e < Len(ws) \/ PeriodLeft(ws, e))
                     THEN e
                ELSE 0
        first == IF Len(cands) >= 1 THEN try(cands[1]) ELSE 0
        second == IF Len(cands) >= 2 THEN try(cands[2]) ELSE 0
    IN  IF first # 0 THEN first ELSE second

multi_author(ws) == MultiFrom(ws, 1, 0)

\* a separator of re.split ends at word j: the conjunction, or the comma
\* of a word that is not the last one
IsSeparator(ws, j) == ws[j] = Conj \/ (HasComma(ws[j]) /\ j < Len(ws))

\* re.split(r'(?:\s+и\s+|,\s+)', authors): the segments between conjunctions
\* and after commas
RECURSIVE SplitAuthors(_)
SplitAuthors(ws) ==
    IF \A j \in 1..Len(ws) : ~IsSeparator(ws, j) THEN <<ws>>
    ELSE LET j == CHOOSE j \in 1..Len(ws) :
                    /\ IsSeparator(ws, j)
                    /\ \A j2 \in 1..(j - 1) : ~IsSeparator(ws, j2)
             seg == IF ws[j] = Conj THEN SubSeq(ws, 1, j - 1)
                    ELSE SubSeq(ws, 1, j - 1) \o <<NoComma(ws[j])>>
         IN  <<seg>> \o SplitAuthors(SubSeq(ws, j + 1, Len(ws)))

\* format_multi_authors: [error, author]; a segment single_author does not
\* match raises ValueError
RECURSIVE FormatSegments(_)
FormatSegments(segs) ==
    IF segs = <<>> THEN [error |-> FALSE, names |-> <<>>]
    ELSE LET cands == AUTHOR_NAME(segs[1], 1)
             rest  == FormatSegments(Tail(segs))
         IN  IF cands = <<>> \/ rest.error
             THEN [error |-> TRUE, names |-> <<>>]
             ELSE [error |-> FALSE,
                   names |-> <<FormatName(segs[1], 1, cands[1])>> \o rest.names]

format_multi_authors(authors) ==
    LET r == FormatSegments(SplitAuthors(authors))
    IN  [error |-> r.error,
         author |-> IF r.error THEN <<>> ELSE JoinWith("; ", r.names)]

\* dash.match(txt): the text starts with the long dash
dash(ws) == ws # <<>> /\ ws[1] = Dash

\* single_name_authors.match(txt): a pen name and at least a word after it
single_name_authors(ws) == Len(ws) >= 2 /\ ws[1] \in SINGLE_AUTHORS

\* author_tag.match(txt): the tag and at least a word after it
author_tag(ws) == Len(ws) >= 2 /\ ws[1] = Tag

\* the dash branch without its test for NOAUTHOR
DashAuthorKeepsPrev(prev) ==
    IF prev = NoneAuthor THEN ERRAUTHOR ELSE prev

\* the author a dash continuation gets from prev
DashAuthor(prev) ==
    IF prev = NoneAuthor THEN ERRAUTHOR
    ELSE IF prev = NOAUTHOR THEN ERRAUTHOR
    ELSE prev

\* extract_author(num, txt, prev): [error, author, row, branch]; branch names
\* the if branch taken
extract_author(num, txt, prev) ==
    LET hasone   == one_author(txt)
        hasdash  == dash(txt)
        hasmulti == multi_author(txt)
        hassingle == single_name_authors(txt)
        hastag   == author_tag(txt)
        result(br, a, tail) ==
            [error |-> FALSE, author |-> a, branch |-> br,
             row |-> [num |-> PyStr(num), author |-> a, tail |-> tail]]
        after(j) == SubSeq(txt, j + 1, Len(txt))
    IN  IF hasmulti # 0 THEN
            LET f == format_multi_authors(SubSeq(txt, 1, hasmulti))
            IN  IF f.error
                THEN [error |-> TRUE, author |-> prev, branch |-> "multi",
                      row |-> [num |-> PyStr(num), author |-> <<>>, tail |-> <<>>]]
                ELSE result("multi", f.author, after(hasmulti))
        ELSE IF hasone # 0 THEN
            result("one", FormatName(txt, 1, hasone), after(hasone))
        ELSE IF hasdash THEN result("dash", DashAuthor(prev), after(1))
        ELSE IF hassingle THEN result("single", txt[1], after(1))
        ELSE IF hastag THEN result("tag", NOAUTHOR, after(1))
        ELSE result("none", NOAUTHOR, txt)

----------------------------------------------------------------------------
(* The state of the pipeline while one input line is processed: the locals  *)
(* of iter_records (itemno, stack), the list objects (heap), what has been  *)
(* yielded (out) and the locals of main (author, rows, failed).             *)

State(i, s, h, o, a, r, f) ==
    [itemno |-> i, stack |-> s, heap |-> h, out |-> o,
     author |-> a, rows |-> r, failed |-> f]

\* main catching the ValueError and writing a NOAUTHOR row for the record
MainBodyDowngrading(st, num, ref) ==
    LET txt == JoinFragments(st.heap[ref])
        r   == extract_author(num, txt, st.author)
    IN  IF r.error
        THEN [st EXCEPT !.author = NOAUTHOR,
                        !.rows = Append(@, [num |-> PyStr(num),
                                            author |-> NOAUTHOR, tail |-> txt])]
        ELSE [st EXCEPT !.author = r.author, !.rows = Append(@, r.row)]

\* main writing the row of a MISSING record without updating author
MainBodySkippingMissing(st, num, ref) ==
    LET r == extract_author(num, JoinFragments(st.heap[ref]), st.author)
    IN  IF r.error THEN [st EXCEPT !.failed = TRUE]
        ELSE IF st.heap[ref] = <<MISSING>>
             THEN [st EXCEPT !.rows = Append(@, r.row)]
        ELSE [st EXCEPT !.author = r.author, !.rows = Append(@, r.row)]

\* the body of main's for loop, run on the record just yielded:
\* author, row = extract_author(num, ' '.join(stack), author); writerow(row)
MainBody(st, num, ref) ==
    LET r == extract_author(num, JoinFragments(st.heap[ref]), st.author)
    IN  IF r.error THEN [st EXCEPT !.failed = TRUE]
        ELSE [st EXCEPT !.author = r.author, !.rows = Append(@, r.row)]

\* yield (num, <list ref>): the record goes to main, which runs its loop body
\* before the generator resumes. frags keeps what the list held when yielded.
Yield(st, num, ref) ==
    IF st.failed THEN st
    ELSE MainBody([st EXCEPT !.out = Append(@, [num |-> num, list |-> ref,
                                                frags |-> st.heap[ref]])],
                  num, ref)

\* stack.clear() in place of stack = []: the list yielded is emptied
ClearStack(st) ==
    IF st.failed THEN st
    ELSE [st EXCEPT !.heap[st.stack] = <<>>]

\* stack = []: a new list object, stack refers to it
NewStack(st) ==
    IF st.failed THEN st
    ELSE [st EXCEPT !.heap = Append(@, <<>>), !.stack = Len(st.heap) + 1]

\* stack.insert(0, x) in place of stack.append(x)
StackPrepend(st, x) ==
    IF st.failed THEN st
    ELSE [st EXCEPT !.heap[st.stack] = <<x>> \o @]

\* stack.append(x)
StackAppend(st, x) ==
    IF st.failed THEN st
    ELSE [st EXCEPT !.heap[st.stack] = Append(@, x)]

\* yield (itemno, ['MISSING']): the list is a new object
YieldMissing(st) ==
    IF st.failed THEN st
    ELSE Yield([st EXCEPT !.heap = Append(@, <<MISSING>>)],
               st.itemno, Len(st.heap) + 1)

\* itemno += 1
Increment(st) ==
    IF st.failed THEN st
    ELSE [st EXCEPT !.itemno = IntVal(PyAdd(st.itemno, IntVal(1)))]

\* the loop with "while num >= itemno": a marker for num itself
RECURSIVE MissingLoopInclusive(_, _)
MissingLoopInclusive(st, num) ==
    IF st.failed \/ PyLt(num, st.itemno) THEN st
    ELSE MissingLoopInclusive(Increment(YieldMissing(st)), num)

\* while num > itemno: yield (itemno, ['MISSING']); itemno += 1
RECURSIVE MissingLoop(_, _)
MissingLoop(st, num) ==
    IF st.failed \/ ~PyGt(num, st.itemno) THEN st
    ELSE MissingLoop(Increment(YieldMissing(st)), num)

\* itemno = num; stack.append(txt)
OpenRecord(st, num, txt) ==
    IF st.failed THEN st
    ELSE StackAppend([st EXCEPT !.itemno = num], txt)

\* the flush without "if stack:"
FlushAlways(st) ==
    IF st.failed THEN st
    ELSE NewStack(Yield(st, st.itemno, st.stack))

\* if stack: yield (itemno, stack); stack = []
FlushIfAny(st) ==
    IF st.failed THEN st
    ELSE IF st.heap[st.stack] # <<>>
         THEN NewStack(Yield(st, st.itemno, st.stack))
         ELSE st

\* num - itemno > k: the number is taken for a misread inside the text
IsSpurious(num, cur) == PySub(num, cur) > K

\* the test without "itemno > 0"
IsContinuationAnyTime(num, cur) == PyEq(num, IntVal(0))

\* the test with "itemno > 1": nothing joins the first entry
IsContinuationAfterFirst(num, cur) ==
    PyEq(num, IntVal(0)) /\ PyGt(cur, IntVal(1))

\* num == 0 and itemno > 0: a line without a number while an entry is open
IsContinuation(num, cur) == PyEq(num, IntVal(0)) /\ PyGt(cur, IntVal(0))

\* the body of the for loop of iter_records for the classified line (n, txt)
LoopBody(st, n, txt) ==
    LET num == IF n.kind = "int" /\ n.num = 0 THEN IntVal(0)
               ELSE BibItemFromString(n.s)
    IN  IF num.kind = "ValueError" THEN [st EXCEPT !.failed = TRUE]
        ELSE IF PyGt(num, st.itemno) THEN
            IF PySub(num, st.itemno) = 1 THEN
                OpenRecord(FlushIfAny(st), num, txt)
            ELSE IF IsSpurious(num, st.itemno) THEN
                StackAppend(st, Reprint(num, txt))
            ELSE
                OpenRecord(
                    MissingLoop(
                        Increment(NewStack(Yield(st, st.itemno, st.stack))),
                        num),
                    num, txt)
        ELSE IF IsContinuation(num, st.itemno) THEN
            StackAppend(st, txt)
        ELSE IF PyLt(num, st.itemno) THEN
            StackAppend(st, Reprint(num, txt))
        ELSE st

\* the else clause guarded by "if stack:"
LoopElseIfAny(st) ==
    IF st.heap[st.stack] # <<>>
    THEN Yield(st, StrVal(PyStr(st.itemno)), st.stack)
    ELSE st

\* the else clause of the for loop: yield (str(itemno), stack)
LoopElse(st) == Yield(st, StrVal(PyStr(st.itemno)), st.stack)

----------------------------------------------------------------------------
(* The input: stripped, non-empty lines (numbered_lines), each a number     *)
(* token and a period before a text, or a text alone.                       *)

Mains == (1..MaxMain) \cup {K + 1}

\* "a" (Latin) and "а" (Cyrillic) parse to the same BibItem; the lines carry
\* the Latin one, which str() does not give back
LineTokens ==
    {IntToStr(m) \o sfx : m \in Mains, sfx \in {<<>>, <<"lat_a">>, <<"cyr_b">>}}

Texts ==
    { <<Word("Ivanov"), Initial, Word("trudy.")>>,
      <<Dash, Word("trudy.")>> }

\* the lines of Spec: numbers with and without suffix, two texts
RawLines == Texts \cup {<<NumDot(tk)>> \o t : tk \in LineTokens, t \in Texts}

AuthorTexts ==
    { <<Word("Ivanov"), Initial, Word("trudy.")>>,
      <<Word("Petrov"), Initial, Initial, Word("trudy.")>>,
      <<Dash, Word("trudy.")>>,
      <<Word("trudy.")>> }

AuthorMains == (1..MaxAuthMain) \cup {K + 1}

\* the lines of SpecAuthors: plain numbers, four texts
AuthorLines ==
    AuthorTexts \cup
    {<<NumDot(IntToStr(m))>> \o t : m \in AuthorMains, t \in AuthorTexts}

MultiTexts ==
    { <<Word("Ivanov"), Initial, Conj, Word("Petrov"), Initial, Initial,
        Word("trudy.")>>,
      <<Word("Ivanov"), Initial, Conj, Comma(Word("Grimm")), Brothers,
        Word("skazki")>>,
      <<Comma(Word("Grimm")), Brothers, Word("skazki")>>,
      <<Dash, Word("trudy.")>> }

\* the lines of SpecMulti: plain numbers, texts with author lists
MultiLines ==
    MultiTexts \cup
    {<<NumDot(IntToStr(m))>> \o t : m \in 1..MaxMultiMain, t \in MultiTexts}

----------------------------------------------------------------------------
(* The pipeline of main: iter_records(numbered_lines(infile)) feeding       *)
(* extract_author and the csv writer.                                       *)

Unset == [kind |-> "unset", num |-> 0, suffix |-> 0, s |-> <<>>]

OpIdle ==
    /\ opSelf = Bib(1, 0) /\ opOther = Bib(1, 0)
    /\ opName = "none" /\ opBool = FALSE /\ opInt = 0

StrIdle == tok = <<>> /\ item = Unset /\ rendered = <<>>

Idle == OpIdle /\ StrIdle

AsmIdle ==
    /\ lines = <<>>
    /\ itemno = IntVal(0)
    /\ heap = << <<>> >>
    /\ stack = 1
    /\ out = <<>>
    /\ done = FALSE
    /\ author = NoneAuthor
    /\ rows = <<>>
    /\ failed = FALSE

Init == AsmIdle /\ Idle

Current == State(itemno, stack, heap, out, author, rows, failed)

Install(st) ==
    /\ itemno' = st.itemno
    /\ stack' = st.stack
    /\ heap' = st.heap
    /\ out' = st.out
    /\ author' = st.author
    /\ rows' = st.rows
    /\ failed' = st.failed

\* one iteration of "for n, txt in numlines" on the next line of the file
Line(raw) ==
    /\ ~done /\ ~failed
    /\ Len(lines) < MaxLines
    /\ LET cl == extract_number(raw)
       IN  /\ lines' = Append(lines, [n |-> cl.n, txt |-> cl.txt,
                                     cur |-> itemno])
           /\ Install(LoopBody(Current, cl.n, cl.txt))
    /\ UNCHANGED <<done, opVars, strVars>>

\* the input is exhausted: the else clause runs and the generator ends
EndOfInput ==
    /\ ~done /\ ~failed
    /\ Install(LoopElse(Current))
    /\ done' = TRUE
    /\ UNCHANGED <<lines, opVars, strVars>>

Next ==
    \/ \E raw \in RawLines : Line(raw)
    \/ EndOfInput

Spec == Init /\ [][Next]_vars

NextAuthors ==
    \/ \E raw \in AuthorLines : Line(raw)
    \/ EndOfInput

SpecAuthors == Init /\ [][NextAuthors]_vars

NextMulti ==
    \/ \E raw \in MultiLines : Line(raw)
    \/ EndOfInput

SpecMulti == Init /\ [][NextMulti]_vars

----------------------------------------------------------------------------
(* The operations of BibItem on their own: self is a BibItem, other a       *)
(* BibItem or an int.                                                       *)

OpBibs == {Bib(n, sfx) : n \in 1..MaxOpNum, sfx \in 0..2}

OpInts == {IntVal(v) : v \in 0..MaxOpInt}

InitOps ==
    /\ AsmIdle /\ StrIdle
    /\ opSelf \in OpBibs
    /\ opOther \in OpBibs \cup OpInts
    /\ opName = "none" /\ opBool = FALSE /\ opInt = 0

DoEq ==
    /\ opName' = "eq" /\ opBool' = BibEq(opSelf, opOther)
    /\ UNCHANGED <<opSelf, opOther, opInt, asmVars, strVars>>

DoLt ==
    /\ opName' = "lt" /\ opBool' = BibLt(opSelf, opOther)
    /\ UNCHANGED <<opSelf, opOther, opInt, asmVars, strVars>>

DoGt ==
    /\ opName' = "gt" /\ opBool' = BibGt(opSelf, opOther)
    /\ UNCHANGED <<opSelf, opOther, opInt, asmVars, strVars>>

DoAdd ==
    /\ opName' = "add" /\ opInt' = BibAdd(opSelf, opOther)
    /\ UNCHANGED <<opSelf, opOther, opBool, asmVars, strVars>>

DoSub ==
    /\ opName' = "sub" /\ opInt' = BibSub(opSelf, opOther)
    /\ UNCHANGED <<opSelf, opOther, opBool, asmVars, strVars>>

NextOps == DoEq \/ DoLt \/ DoGt \/ DoAdd \/ DoSub

SpecOps == InitOps /\ [][NextOps]_vars

----------------------------------------------------------------------------
(* BibItem(string=tok) and str() of the result, for every string of at most *)
(* MaxTokLen characters of TokChars.                                        *)

TokChars == {"0", "1", "2", "lat_a", "cyr_a", "cyr_b", "x", "nl"}

Tokens == UNION {[1..n -> TokChars] : n \in 0..MaxTokLen}

InitStr ==
    /\ AsmIdle /\ OpIdle
    /\ tok \in Tokens
    /\ item = Unset
    /\ rendered = <<>>

\* item = BibItem(string=tok)
Construct ==
    /\ item = Unset
    /\ item' = BibItemFromString(tok)
    /\ UNCHANGED <<tok, rendered, asmVars, opVars>>

\* rendered = str(item)
Render ==
    /\ item.kind = "bib"
    /\ rendered = <<>>
    /\ rendered' = BibStr(item)
    /\ UNCHANGED <<tok, item, asmVars, opVars>>

NextStr == Construct \/ Render

SpecStr == InitStr /\ [][NextStr]_vars

----------------------------------------------------------------------------
(* Properties                                                               *)

\* a step of iter_records that consumed a line, and that line
LineTaken == Len(lines') = Len(lines) + 1

NewLine == lines'[Len(lines')]

\* the number a classified line carries, as iter_records builds it
Detected(cl) == BibItemFromString(cl.n.s)

Numbered(cl) == cl.n.kind = "str"

\* main + suffix-rank of a BibItem; the value of a plain integer
IntOf(x) == x.num + x.suffix

\* the line carries the plain number v: its decimal digits and no suffix
PlainNumber(cl, v) == Numbered(cl) /\ cl.n.s = IntToStr(v)

\* the pending fragments before and after a step
Pending == heap[stack]

PendingAfter == heap'[stack']

\* the fragment "<n>. <t>" of a numbered line
Literal(cl) == <<PyStr(Detected(cl)) \o <<".">> >> \o cl.txt

\* the lines consumed are numbered 1, 2, ..., N with plain numbers
Counting == \A j \in 1..Len(lines) : PlainNumber(lines[j], j)

(* C1: when the input is the N >= 1 lines with the plain numbers 1..N, the  *)
(* assembler yields exactly N records, the i-th numbered i and holding      *)
(* exactly the text of line i; no record 0 and no MISSING record.           *)
C1_CountingLines ==
    (done /\ Len(lines) >= 1 /\ Counting) =>
        /\ Len(out) = Len(lines)
        /\ \A j \in 1..Len(out) :
              /\ PyStr(out[j].num) = IntToStr(j)
              /\ out[j].frags = <<lines[j].txt>>

C1_Witness ==
    /\ done /\ Len(lines) = 3 /\ Counting
    /\ Len(out) = 3
    /\ out[2].frags = <<lines[2].txt>>
    /\ lines[1].txt # lines[2].txt

(* C2: when the open record has the plain number c >= 1 and a line with the *)
(* plain number n arrives with 1 < n - c <= k, the step yields (c, pending),*)
(* then (j, ['MISSING']) for j = c+1 .. n-1 in increasing order and nothing *)
(* else, and opens record n with pending = [t]; n - c = k is such a gap.    *)
C2_GapFilled ==
    [][ ( /\ LineTaken
          /\ itemno.kind = "bib" /\ itemno.suffix = 0 /\ itemno.num >= 1
          /\ \E n \in (itemno.num + 2)..(itemno.num + K) :
                PlainNumber(NewLine, n) )
        =>
        LET c == itemno.num
            n == ParseInt(NewLine.n.s)
            base == Len(out)
        IN  /\ Len(out') = base + (n - c)
            /\ SubSeq(out', 1, base) = out
            /\ out'[base + 1].num = itemno
            /\ out'[base + 1].frags = Pending
            /\ \A j \in 1..(n - c - 1) :
                  /\ out'[base + 1 + j].num = IntVal(c + j)
                  /\ out'[base + 1 + j].frags = <<MISSING>>
            /\ itemno' = Bib(n, 0)
            /\ PendingAfter = <<NewLine.txt>>
      ]_vars

\* the boundary gap n - c = k: line 1, then line k + 1
C2_Witness ==
    /\ ~done /\ Len(lines) = 2
    /\ PlainNumber(lines[1], 1) /\ PlainNumber(lines[2], K + 1)
    /\ Len(out) = K
    /\ out[K].frags = <<MISSING>>
    /\ itemno = Bib(K + 1, 0)

(* C3: when the number n of a line exceeds current by more than k, the line *)
(* is absorbed: "<n>. <t>" is appended to pending, current is unchanged and *)
(* the step yields no record.                                               *)
C3_SpuriousAbsorbed ==
    [][ ( /\ LineTaken
          /\ Numbered(NewLine)
          /\ IntOf(Detected(NewLine)) - IntOf(itemno) > K )
        =>
        /\ PendingAfter = Append(Pending, Literal(NewLine))
        /\ stack' = stack
        /\ itemno' = itemno
        /\ out' = out
        /\ rows' = rows
      ]_vars

\* record 1 is open and the line "11a. ..." (11 + 1 - 1 > 10) was absorbed
C3_Witness ==
    /\ ~done /\ Len(lines) = 2
    /\ PlainNumber(lines[1], 1)
    /\ lines[2].n = StrVal(IntToStr(K + 1) \o <<"lat_a">>)
    /\ itemno = Bib(1, 0)
    /\ out = <<>>
    /\ Pending = <<lines[1].txt, Literal(lines[2])>>

(* C4: when the number of a line equals the number of the open record, the  *)
(* line is a continuation that keeps its prefix: "<n>. <t>" is appended to  *)
(* pending, current is unchanged and nothing is yielded.                    *)
C4_EqualNumberKept ==
    [][ ( /\ LineTaken
          /\ Numbered(NewLine)
          /\ itemno.kind = "bib"
          /\ Detected(NewLine) = itemno )
        =>
        /\ PendingAfter = Append(Pending, Literal(NewLine))
        /\ itemno' = itemno
        /\ out' = out
      ]_vars

\* no line consumed so far carries a number
NoNumbers == \A j \in 1..Len(lines) : ~Numbered(lines[j])

\* the texts of the lines consumed, joined
RECURSIVE AllTexts(_)
AllTexts(ls) == IF ls = <<>> THEN <<>> ELSE ls[1].txt \o AllTexts(Tail(ls))

(* C5 as claimed: an input without numbers gives exactly one output record, *)
(* numbered "0", whose text is all the input lines joined.                  *)
C5_AllLinesJoined ==
    (done /\ NoNumbers) =>
        /\ Len(out) = 1 /\ Len(rows) = 1
        /\ rows[1].num = <<"0">>
        /\ JoinFragments(out[1].frags) = AllTexts(lines)

(* C5 as amended: an input without numbers gives exactly one output record, *)
(* numbered "0", whose text is empty: every line is dropped, and the row is *)
(* ("0", NOAUTHOR, "").                                                     *)
C5_AllLinesDropped ==
    (done /\ NoNumbers) =>
        /\ Len(out) = 1 /\ Len(rows) = 1
        /\ out[1].num = StrVal(<<"0">>)
        /\ out[1].frags = <<>>
        /\ rows[1] = [num |-> <<"0">>, author |-> NOAUTHOR, tail |-> <<>>]

C5_Witness ==
    /\ done /\ NoNumbers /\ Len(lines) >= 2
    /\ Len(rows) = 1 /\ rows[1].tail = <<>>

\* the records yielded by the else clause: their number is a str
FinalRecords == {j \in 1..Len(out) : out[j].num.kind = "str"}

(* C6: on every finite input iter_records runs to its end without raising; *)
(* the record it yields last is (current, pending) as they stand at the end *)
(* of the input, the number as str(current); it is yielded exactly once,    *)
(* also when pending is empty and when no numbered line was seen.           *)
C6_FinalRecord ==
    /\ ~failed
    /\ ~done => FinalRecords = {}
    /\ done =>
        /\ FinalRecords = {Len(out)}
        /\ out[Len(out)].num = StrVal(PyStr(itemno))
        /\ out[Len(out)].list = stack
        /\ out[Len(out)].frags = Pending

\* lines were read, none opened a record, and the final record is (0, [])
C6_Witness ==
    /\ done /\ Len(lines) >= 1
    /\ itemno = IntVal(0)
    /\ out = <<[num |-> StrVal(<<"0">>), list |-> stack, frags |-> <<>>]>>

\* the text of record j, as main joins it
RecordText(j) == JoinFragments(out[j].frags)

\* record j is a dash continuation: its text starts with the long dash
IsDashRecord(j) == RecordText(j) # <<>> /\ RecordText(j)[1] = Dash

(* C7: with the author threaded from row to row as main does, a dash        *)
(* continuation gets ERRAUTHOR when it is the first record or the row just  *)
(* before it has NOAUTHOR, and otherwise exactly the author of the row just *)
(* before it.                                                               *)
C7_DashInheritsPrevious ==
    /\ Len(rows) = Len(out)
    /\ \A j \in 1..Len(rows) :
          IsDashRecord(j) =>
              rows[j].author =
                  IF j = 1 THEN ERRAUTHOR
                  ELSE IF rows[j - 1].author = NOAUTHOR THEN ERRAUTHOR
                  ELSE rows[j - 1].author

\* two different authors, then a dash record that takes the second
C7_Witness ==
    /\ Len(rows) = 3
    /\ IsDashRecord(3)
    /\ rows[1].author \notin {NOAUTHOR, ERRAUTHOR}
    /\ rows[2].author \notin {NOAUTHOR, ERRAUTHOR, rows[1].author}
    /\ rows[3].author = rows[2].author

\* each operation gives what the same operation gives on main + suffix-rank
AsIntegers ==
    /\ opName = "eq"  => opBool = (IntOf(opSelf) = IntOf(opOther))
    /\ opName = "lt"  => opBool = (IntOf(opSelf) < IntOf(opOther))
    /\ opName = "gt"  => opBool = (IntOf(opSelf) > IntOf(opOther))
    /\ opName = "add" => opInt = IntOf(opSelf) + IntOf(opOther)
    /\ opName = "sub" => opInt = IntOf(opSelf) - IntOf(opOther)

\* a comparison of two BibItems compares the pairs (main, suffix-rank)
AsPairs ==
    /\ opName = "eq" =>
          opBool = (opSelf.num = opOther.num /\ opSelf.suffix = opOther.suffix)
    /\ opName = "lt" =>
          opBool = \/ opSelf.num < opOther.num
                   \/ opSelf.num = opOther.num /\ opSelf.suffix < opOther.suffix
    /\ opName = "gt" =>
          opBool = \/ opSelf.num > opOther.num
                   \/ opSelf.num = opOther.num /\ opSelf.suffix > opOther.suffix

(* C8 as claimed: a == b, a < b, a > b, a + b, a - b and the same with a    *)
(* plain integer i all give the result of the operation on the plain        *)
(* integers main + suffix-rank.                                             *)
C8_AllAsIntegers == AsIntegers

(* C8 as amended: a + b, a - b and every operation with a plain integer     *)
(* give the result of the operation on main + suffix-rank; a == b, a < b    *)
(* and a > b compare the pairs (main, suffix-rank) lexicographically.       *)
C8_IntegersOrPairs ==
    IF opOther.kind = "bib" /\ opName \in {"eq", "lt", "gt"}
    THEN AsPairs ELSE AsIntegers

\* 1а < 2 although both are 2 as main + suffix-rank
C8_Witness ==
    /\ opName = "lt" /\ opBool
    /\ opSelf = Bib(1, 1) /\ opOther = Bib(2, 0)
    /\ IntOf(opSelf) = IntOf(opOther)

\* a main number: digits, the first of them not 0
IsMain(t) == t # <<>> /\ t[1] # "0" /\ \A j \in 1..Len(t) : t[j] \in DigitSet

\* a main number, optionally followed by one of the markers
IsMainSuffix(t, markers) ==
    \/ IsMain(t)
    \/ Len(t) >= 2 /\ t[Len(t)] \in markers /\ IsMain(SubSeq(t, 1, Len(t) - 1))

\* t without the line feed that ends it, if one does
Chomp(t) ==
    IF t # <<>> /\ t[Len(t)] = "nl" THEN SubSeq(t, 1, Len(t) - 1) ELSE t

\* t with the Latin a written as the Cyrillic а
Cyrillic(t) == [j \in 1..Len(t) |-> IF t[j] = "lat_a" THEN "cyr_a" ELSE t[j]]

(* C9 as claimed: a token made of a main number and an optional insertion   *)
(* marker is accepted, and rendering the parsed value gives the token back  *)
(* character for character; every other token fails with ValueError.        *)
C9_RoundTripExact ==
    item # Unset =>
        IF IsMainSuffix(tok, SuffixChars)
        THEN item.kind = "bib" /\ (rendered # <<>> => rendered = tok)
        ELSE item = ValueError

(* C9 as amended: a main number optionally followed by the Cyrillic marker  *)
(* а or б is reproduced character for character. The parser also accepts   *)
(* the Latin a as a marker and one line feed after the token: the Latin a   *)
(* is rendered as the Cyrillic а and the line feed is dropped. Every other  *)
(* token fails with ValueError.                                             *)
C9_RoundTripCanonical ==
    item # Unset =>
        IF IsMainSuffix(Chomp(tok), SuffixChars)
        THEN /\ item.kind = "bib"
             /\ rendered # <<>> => rendered = Cyrillic(Chomp(tok))
             /\ (rendered # <<>> /\ IsMainSuffix(tok, {"cyr_a", "cyr_b"}))
                   => rendered = tok
        ELSE item = ValueError

\* "12б" parsed and rendered
C9_Witness ==
    /\ tok = <<"1", "2", "cyr_b">>
    /\ item = Bib(12, 2)
    /\ rendered = tok

(* C10: the fragment list of a record is not changed after it was yielded:  *)
(* every list a yielded record refers to holds what it held when yielded.   *)
C10_YieldedListsFrozen ==
    \A j \in 1..Len(out) : heap[out[j].list] = out[j].frags

\* record 1 was yielded, then record 2 took a continuation and a reprint
C10_Witness ==
    /\ ~done /\ Len(lines) = 3
    /\ Len(out) = 1 /\ out[1].frags = <<lines[1].txt>>
    /\ out[1].list # stack
    /\ Len(Pending) = 2

----------------------------------------------------------------------------
\* the multi-author pattern matches ws and a segment of the matched span
\* does not start with a name
BadList(ws) ==
    /\ multi_author(ws) # 0
    /\ LET segs == SplitAuthors(SubSeq(ws, 1, multi_author(ws)))
       IN  \E j \in 1..Len(segs) : AUTHOR_NAME(segs[j], 1) = <<>>

(* C11: a record whose text matches the multi-author pattern with a segment *)
(* that is not a single author ends the run with the error: it is the last  *)
(* record yielded, no row is written for it, and the carried author is      *)
(* still that of the row before it; the run fails for no other record.      *)
C11_BadListIsFatal ==
    /\ \A j \in 1..Len(out) :
          BadList(RecordText(j)) =>
              /\ failed
              /\ j = Len(out)
              /\ Len(rows) = j - 1
              /\ author = IF j = 1 THEN NoneAuthor ELSE rows[j - 1].author
    /\ failed => out # <<>> /\ BadList(RecordText(Len(out)))

\* a good row, then a record with "Grimm" alone as a segment of its list
C11_Witness ==
    /\ failed
    /\ Len(out) = 2 /\ Len(rows) = 1
    /\ rows[1].author = <<"Grimm", ", ", "bratya">>
    /\ BadList(RecordText(2))

----------------------------------------------------------------------------
\* x comes before y in the order of sequence numbers: by main number, then
\* by suffix rank (none, а, б); a plain integer has no suffix
Precedes(x, y) == x.num < y.num \/ (x.num = y.num /\ x.suffix < y.suffix)

\* g = num - itemno as iter_records computes it for the line just taken
Jump == PySub(Detected(NewLine), itemno)

(* C12: whenever the number of a line is strictly greater than current, the *)
(* jump g = n - current is at least 1, with or without suffixes.            *)
C12_ForwardJumpPositive ==
    [][ ( /\ LineTaken
          /\ Numbered(NewLine)
          /\ Precedes(itemno, Detected(NewLine))
          /\ PyGt(Detected(NewLine), itemno) )
        =>
        Jump >= 1
      ]_vars

----------------------------------------------------------------------------
(* C13: when the number n of a line comes strictly before current, the      *)
(* fragment "<n>. <t>" is appended to pending and nothing else changes:     *)
(* current, the list pending refers to, the records and the rows stay.      *)
C13_BackwardAbsorbed ==
    [][ ( /\ LineTaken
          /\ Numbered(NewLine)
          /\ Precedes(Detected(NewLine), itemno) )
        =>
        /\ PendingAfter = Append(Pending, Literal(NewLine))
        /\ stack' = stack
        /\ itemno' = itemno
        /\ out' = out
        /\ rows' = rows
        /\ author' = author
        /\ \A r \in 1..Len(heap) : r # stack => heap'[r] = heap[r]
        /\ Len(heap') = Len(heap)
      ]_vars

\* record 2 is open and the line "1b. ..." was put into it with its number
C13_Witness ==
    /\ ~done /\ Len(lines) = 3
    /\ PlainNumber(lines[1], 1) /\ PlainNumber(lines[2], 2)
    /\ lines[3].n = StrVal(<<"1", "cyr_b">>)
    /\ itemno = Bib(2, 0)
    /\ Len(out) = 1
    /\ Pending = <<lines[2].txt, Literal(lines[3])>>
    /\ Literal(lines[3])[1] = <<"1", "cyr_b", ".">>

----------------------------------------------------------------------------
\* an entry is open: current is a number above zero
EntryOpen == Precedes(IntVal(0), itemno)

(* C14: a line without a number is appended verbatim to pending when an     *)
(* entry is open, current is unchanged and nothing is yielded; when no      *)
(* entry is open the line is dropped and the assembler state is unchanged.  *)
C14_UnnumberedLine ==
    [][ ( LineTaken /\ ~Numbered(NewLine) )
        =>
        IF EntryOpen
        THEN /\ PendingAfter = Append(Pending, NewLine.txt)
             /\ stack' = stack
             /\ itemno' = itemno
             /\ out' = out
             /\ rows' = rows
             /\ author' = author
             /\ failed' = failed
        ELSE UNCHANGED <<itemno, stack, heap, out, author, rows, failed>>
      ]_vars

\* a line dropped before the first number, a line joined to record 1
C14_Witness ==
    /\ ~done /\ Len(lines) = 3
    /\ ~Numbered(lines[1])
    /\ PlainNumber(lines[2], 1)
    /\ ~Numbered(lines[3])
    /\ itemno = Bib(1, 0)
    /\ out = <<>>
    /\ Pending = <<lines[2].txt, lines[3].txt>>

----------------------------------------------------------------------------
\* the number of record j as a sequence number: a BibItem, the integer of a
\* MISSING marker, or the string of the last record read back
RecordNumber(j) ==
    LET n == out[j].num
    IN  IF n.kind # "str" THEN n
        ELSE IF n.s = IntToStr(0) THEN IntVal(0)
        ELSE BibItemFromString(n.s)

(* C15: the numbers of the records yielded, real and MISSING together, are  *)
(* strictly increasing in the order of sequence numbers (main, then suffix  *)
(* rank), so no number is yielded twice or both as MISSING and as real.     *)
C15_NumbersIncreasing ==
    \A j \in 1..(Len(out) - 1) :
        Precedes(RecordNumber(j), RecordNumber(j + 1))

----------------------------------------------------------------------------
\* current when line j was received
CurrentAt(j) == lines[j].cur

\* no line carries the number of the record open when it is received
NoEqualNumbers ==
    \A j \in 1..Len(lines) :
        ~( /\ Numbered(lines[j])
           /\ CurrentAt(j).kind = "bib"
           /\ Detected(lines[j]) = CurrentAt(j) )

\* line j leaves a fragment: it is numbered, or an entry is open
LeavesFragment(j) ==
    Numbered(lines[j]) \/ Precedes(IntVal(0), CurrentAt(j))

\* the lines among the first n that leave a fragment, in input order
RECURSIVE KeptLines(_)
KeptLines(n) ==
    IF n = 0 THEN <<>>
    ELSE KeptLines(n - 1) \o (IF LeavesFragment(n) THEN <<lines[n]>> ELSE <<>>)

\* the fragments of the first n records that are not MISSING markers
RECURSIVE YieldedFragments(_)
YieldedFragments(n) ==
    IF n = 0 THEN <<>>
    ELSE YieldedFragments(n - 1)
         \o (IF out[n].frags = <<MISSING>> THEN <<>> ELSE out[n].frags)

(* C16: when no line carries the number of the record open at that moment,  *)
(* then at the end of the input the fragments of the records yielded        *)
(* (MISSING markers left out), in the order of the records, are one per     *)
(* numbered line (t or "<n>. <t>") and one per unnumbered line received     *)
(* while an entry was open (t), in input order and each exactly once.       *)
C16_TextPreserved ==
    (done /\ NoEqualNumbers) =>
        LET kept  == KeptLines(Len(lines))
            frags == YieldedFragments(Len(out))
        IN  /\ Len(frags) = Len(kept)
            /\ \A i \in 1..Len(kept) :
                  \/ frags[i] = kept[i].txt
                  \/ Numbered(kept[i]) /\ frags[i] = Literal(kept[i])

\* a line dropped before the first number, a gap with a MISSING marker, a
\* line put back with its number, and the run is over
C16_Witness ==
    /\ done /\ Len(lines) = 3 /\ NoEqualNumbers
    /\ ~Numbered(lines[1])
    /\ PlainNumber(lines[2], 2)
    /\ PlainNumber(lines[3], 1)
    /\ lines[2].txt # lines[3].txt
    /\ Len(out) = 3
    /\ out[2].frags = <<MISSING>>
    /\ out[3].frags = <<lines[2].txt, Literal(lines[3])>>

----------------------------------------------------------------------------
\* record j is a marker made up for a number that is not in the input
IsMissingRecord(j) == out[j].num.kind = "int" /\ out[j].frags = <<MISSING>>

(* C17: the row of a MISSING record has NOAUTHOR, so a dash continuation    *)
(* that comes right after a MISSING record gets ERRAUTHOR, never the author *)
(* of the last real record before the gap.                                  *)
C17_DashAfterMissing ==
    \A j \in 2..Len(rows) :
        (IsMissingRecord(j - 1) /\ IsDashRecord(j)) =>
            /\ rows[j - 1].author = NOAUTHOR
            /\ rows[j - 1].tail = MISSING
            /\ rows[j].author = ERRAUTHOR

\* an authored record 1, the marker for 2, and a dash record 3
C17_Witness ==
    /\ Len(rows) = 3 /\ Len(out) = 3
    /\ rows[1].author = <<"Ivanov", ", ", "I.">>
    /\ IsMissingRecord(2)
    /\ IsDashRecord(3)
    /\ rows[3].author = ERRAUTHOR

============================================================================
